---- MODULE Spec2Model ----
(***************************************************************************)
(* The transaction store (zustand) of the finance dashboard together with  *)
(* the dashboard's memoised derivation pipeline (totals, filter, sort),    *)
(* the authentication context, the dashboard page's gate and modals, and   *)
(* the transaction form.                                                   *)
(*                                                                         *)
(* Strings that the code only compares are TLA+ strings.  Strings that the *)
(* code takes apart (the base-36 text of Math.random(), the ids cut out of *)
(* it) are sequences of one-character strings.  Amounts are whole numbers. *)
(* Date.getTime() is counted in days: an ISO date-only string parses to    *)
(* UTC midnight, so every value is a multiple of 86 400 000 ms.            *)
(***************************************************************************)
EXTENDS Integers, Sequences, FiniteSets, TLC

VARIABLES
    transactions,           \* store: Transaction[]
    isLoading,              \* store: boolean
    pending,                \* store calls suspended at their setTimeout, in start order
    filterType,             \* dashboard: "all" | "income" | "expense"
    sortOrder,              \* dashboard: "asc" | "desc"
    totals,                 \* dashboard: value of the totals useMemo
    processedTransactions,  \* dashboard: value of the list useMemo
    last,                   \* history: the store call that resolved most recently
    prior,                  \* history: the collection before that call resolved, kept
                            \*          while a call that was in flight with it still is
    auth,                   \* AuthProvider: { user, isAuthenticated, isLoading }
    savedUser,              \* localStorage holds 'auth_user'
    hydrated,               \* AuthProvider's mount effect has run
    loginPending,           \* login() is suspended at its setTimeout
    page,                   \* the page that is mounted: "login" | "dashboard"
    effectDue,              \* DashboardPage's useEffect is scheduled
    isModalOpen,            \* dashboard: the form modal is open
    editingTransaction,     \* dashboard: Transaction | undefined
    isDeleteModalOpen,      \* dashboard: the confirmation modal is open
    transactionToDelete,    \* dashboard: Transaction | null
    awaiting,               \* per pending store call, what its caller does after the await
    event                   \* history: the form callback the last step ran, if any

storeVars == <<transactions, isLoading, pending, filterType, sortOrder, totals,
               processedTransactions, last, prior>>

authVars == <<auth, savedUser, hydrated, loginPending>>

localVars == <<isModalOpen, editingTransaction, isDeleteModalOpen, transactionToDelete>>

appVars == <<authVars, page, effectDue, localVars, awaiting, event>>

vars == <<storeVars, appVars>>

-----------------------------------------------------------------------------
(* Bounds *)

MaxTransactions == 3
MaxPending == 2

-----------------------------------------------------------------------------
(* Data *)

Min(a, b) == IF a < b THEN a ELSE b
Max(a, b) == IF a > b THEN a ELSE b

Id7 == <<"4", "f", "z", "y", "o", "8", "2">>

mockData ==
    << [id |-> <<"1">>, title |-> "Salario", amount |-> 3000, type |-> "income",
        category |-> "Trabajo", date |-> "2023-10-01"],
       [id |-> <<"2">>, title |-> "Alquiler", amount |-> 800, type |-> "expense",
        category |-> "Vivienda", date |-> "2023-10-05"] >>

\* Drafts a caller hands to addTransaction (Omit<Transaction, 'id'>).
Drafts ==
    { [title |-> "Coffee", amount |-> 5, type |-> "expense",
       category |-> "Food", date |-> "2023-10-05"] }

\* Math.random().toString(36): "0" for 0, and two doubles whose base-36
\* expansions agree in the first seven digits after the point.
RandomStrings ==
    { <<"0">>,
      <<"0", ".">> \o Id7 \o <<"m", "v", "y", "r">>,
      <<"0", ".">> \o Id7 \o <<"m", "v", "y", "s">> }

\* String.prototype.substring(start, end) on a sequence of characters.
substring(s, start, end) == SubSeq(s, Min(start, Len(s)) + 1, Min(end, Len(s)))

RandomIds == { substring(r, 2, 9) : r \in RandomStrings }

\* Ids a caller passes to updateTransaction / deleteTransaction.
ArgIds == { Id7, mockData[1].id }

WithId(d, i) ==
    [id |-> i, title |-> d.title, amount |-> d.amount, type |-> d.type,
     category |-> d.category, date |-> d.date]

\* Complete records a caller hands to updateTransaction.
Edited ==
    [title |-> "Bonus", amount |-> 200, type |-> "income",
     category |-> "Trabajo", date |-> "2024-01-01"]

Updates == { WithId(Edited, i) : i \in ArgIds }

FieldsOf(t) ==
    [title |-> t.title, amount |-> t.amount, type |-> t.type,
     category |-> t.category, date |-> t.date]

-----------------------------------------------------------------------------
(* Sequence helpers *)

RemoveAt(s, j) == SubSeq(s, 1, j - 1) \o SubSeq(s, j + 1, Len(s))

-----------------------------------------------------------------------------
(* Transaction store *)

DelayFetch == 800
DelayMutate == 500

\* set({ isLoading: true })
setLoading(state) == [transactions |-> state.transactions, isLoading |-> TRUE]

\* Faulty variant: the snapshot is added to the collection instead of replacing it.
getAllSetMerging(state) ==
    [transactions |-> mockData \o state.transactions, isLoading |-> FALSE]

\* Faulty variant: the snapshot is published without clearing isLoading.
getAllSetStillLoading(state) == [transactions |-> mockData, isLoading |-> state.isLoading]

\* getAllTransactions, after the await: set({ transactions: mockData, isLoading: false })
getAllSet(state) == [transactions |-> mockData, isLoading |-> FALSE]

\* addTransaction, after the await: { ...newTx, id: Math.random().toString(36).substring(2, 9) }
newTransaction(newTx, random) == WithId(newTx, substring(random, 2, 9))

\* Faulty variant: the collection is published without clearing isLoading.
addSetStillLoading(state, transaction) ==
    [transactions |-> <<transaction>> \o state.transactions, isLoading |-> state.isLoading]

\* Faulty variant: the new record takes the place of the most recent write.
addSetOverwriting(state, transaction) ==
    [transactions |-> <<transaction>> \o SubSeq(state.transactions, 2, Len(state.transactions)),
     isLoading |-> FALSE]

\* addTransaction: set((state) => ({ transactions: [transaction, ...state.transactions], isLoading: false }))
addSet(state, transaction) ==
    [transactions |-> <<transaction>> \o state.transactions, isLoading |-> FALSE]

\* Faulty variant: an update whose id is not in the collection inserts the record.
updateSetUpserting(state, updatedTx) ==
    [transactions |->
         IF \E i \in 1..Len(state.transactions) : state.transactions[i].id = updatedTx.id
         THEN [i \in 1..Len(state.transactions) |->
                   LET tx == state.transactions[i]
                   IN  IF tx.id = updatedTx.id THEN updatedTx ELSE tx]
         ELSE Append(state.transactions, updatedTx),
     isLoading |-> FALSE]

\* updateTransaction: set((state) => ({ transactions: state.transactions.map(...), isLoading: false }))
updateSet(state, updatedTx) ==
    [transactions |->
         [i \in 1..Len(state.transactions) |->
              LET tx == state.transactions[i]
              IN  IF tx.id = updatedTx.id THEN updatedTx ELSE tx],
     isLoading |-> FALSE]

\* Faulty variant: isLoading stays set while other calls are in flight, as a
\* count of pending calls would keep it.
deleteSetCounting(state, id) ==
    [transactions |-> SelectSeq(state.transactions, LAMBDA tx : tx.id # id),
     isLoading |-> Len(pending) > 1]

\* Faulty variant: the filter runs on the collection read before the await,
\* when a call that was in flight with this one has resolved since.
deleteSetFromSnapshot(state, id) ==
    [transactions |-> SelectSeq(IF prior # <<>> THEN prior ELSE state.transactions,
                                LAMBDA tx : tx.id # id),
     isLoading |-> FALSE]

\* deleteTransaction: set((state) => ({ transactions: state.transactions.filter(...), isLoading: false }))
deleteSet(state, id) ==
    [transactions |-> SelectSeq(state.transactions, LAMBDA tx : tx.id # id),
     isLoading |-> FALSE]

\* The store's state object as the set callbacks receive it.
StoreState == [transactions |-> transactions, isLoading |-> isLoading]

\* A call suspended at its timer.  raced is history: another call resolved
\* while this one was in flight.
Call(op, arg, delay) == [op |-> op, arg |-> arg, delay |-> delay, raced |-> FALSE]

\* setTimeout: of the pending timers, one may fire unless a timer started
\* earlier with an equal or shorter delay is still pending.
CanFire(j) == \A i \in 1..(j - 1) : pending[i].delay > pending[j].delay

NoArg == [none |-> TRUE]
NoCall == [op |-> "none", arg |-> NoArg, size |-> 0, raced |-> FALSE]

\* What history keeps of call j when it resolves: the call, the length of the
\* collection it found, and whether it raced.
Resolved(j) ==
    [op |-> pending[j].op, arg |-> pending[j].arg, size |-> Len(transactions),
     raced |-> pending[j].raced]

\* The calls still in flight after call j resolved.
Remaining(j) ==
    LET rest == RemoveAt(pending, j)
    IN  [i \in 1..Len(rest) |-> [rest[i] EXCEPT !.raced = TRUE]]

-----------------------------------------------------------------------------
(* Dashboard derivation pipeline *)

FilterTypes == {"all", "income", "expense"}
SortOrders == {"asc", "desc"}

\* Year, month and day of the ISO dates that occur.
DateParts(date) ==
    CASE date = "2023-10-01" -> <<2023, 10, 1>>
      [] date = "2023-10-05" -> <<2023, 10, 5>>
      [] date = "2024-01-01" -> <<2024, 1, 1>>

\* new Date(date).getTime() for a date-only ISO string, in days since 1970-01-01.
getTime(date) ==
    LET p   == DateParts(date)
        y   == IF p[2] <= 2 THEN p[1] - 1 ELSE p[1]
        era == y \div 400
        yoe == y - era * 400
        mp  == IF p[2] > 2 THEN p[2] - 3 ELSE p[2] + 9
        doy == (153 * mp + 2) \div 5 + p[3] - 1
        doe == yoe * 365 + yoe \div 4 - yoe \div 100 + doy
    IN  era * 146097 + doe - 719468

\* Faulty variant: the comparator ignores the sort order.
compareAscending(a, b, order) == getTime(a.date) - getTime(b.date)

\* The comparator handed to sort.
compare(a, b, order) ==
    LET dateA == getTime(a.date)
        dateB == getTime(b.date)
    IN  IF order = "desc" THEN dateB - dateA ELSE dateA - dateB

\* Array.prototype.sort with that comparator (stable since ES2019): each
\* element goes behind the last already placed element that does not compare
\* greater.
sort(arr, order) ==
    LET insert(done, x) ==
            LET le == {i \in 1..Len(done) : compare(done[i], x, order) <= 0}
                p  == IF le = {} THEN 0 ELSE CHOOSE i \in le : \A k \in le : k <= i
            IN  SubSeq(done, 1, p) \o <<x>> \o SubSeq(done, p + 1, Len(done))
        placed[i \in 0..Len(arr)] ==
            IF i = 0 THEN <<>> ELSE insert(placed[i - 1], arr[i])
    IN  placed[Len(arr)]

\* .reduce((acc, t) => acc + t.amount, 0)
sumAmounts(arr) ==
    LET acc[i \in 0..Len(arr)] == IF i = 0 THEN 0 ELSE acc[i - 1] + arr[i].amount
    IN  acc[Len(arr)]

\* Faulty variant: the totals are taken over the records the list shows.
computeTotalsOfShown(txs) ==
    LET shown    == SelectSeq(txs, LAMBDA t : IF filterType = "all" THEN TRUE
                                                       ELSE t.type = filterType)
        income   == sumAmounts(SelectSeq(shown, LAMBDA t : t.type = "income"))
        expenses == sumAmounts(SelectSeq(shown, LAMBDA t : t.type = "expense"))
    IN  [totalIncome |-> income, totalExpenses |-> expenses,
         netBalance |-> income - expenses]

\* useMemo(() => { income, expenses, income - expenses }, [transactions])
computeTotals(txs) ==
    LET income   == sumAmounts(SelectSeq(txs, LAMBDA t : t.type = "income"))
        expenses == sumAmounts(SelectSeq(txs, LAMBDA t : t.type = "expense"))
    IN  [totalIncome |-> income, totalExpenses |-> expenses,
         netBalance |-> income - expenses]

\* Faulty variant: the type filter lets every record through.
computeProcessedUnfiltered(txs, ft, order) ==
    sort(txs, order)

\* useMemo(() => transactions.filter(...).sort(...), [transactions, filterType, sortOrder])
computeProcessed(txs, ft, order) ==
    sort(SelectSeq(txs, LAMBDA t : IF ft = "all" THEN TRUE ELSE t.type = ft), order)

\* The render that follows a state change: each memo is recomputed when one
\* of its dependencies changed and keeps its value otherwise.
Render ==
    /\ totals' = IF transactions' # transactions
                 THEN computeTotals(transactions') ELSE totals
    /\ processedTransactions' =
           IF \/ transactions' # transactions
              \/ filterType' # filterType
              \/ sortOrder' # sortOrder
           THEN computeProcessed(transactions', filterType', sortOrder')
           ELSE processedTransactions

-----------------------------------------------------------------------------
(* Initial state *)

\* useState initial values of DashboardPage; editingTransaction starts
\* undefined and transactionToDelete null.
undefined == [undefined |-> TRUE]
null == [null |-> TRUE]

NoEvent == [name |-> "none", data |-> NoArg]

\* The local state of a DashboardPage that is not on screen is the state its
\* next mount starts with.
InitialLocalState ==
    /\ isModalOpen' = FALSE
    /\ editingTransaction' = undefined
    /\ isDeleteModalOpen' = FALSE
    /\ transactionToDelete' = null

\* The application after the first render of the page at the given route,
\* before any effect has run: the store as constructed, AuthProvider's
\* initial state, the page's initial local state, and whether localStorage
\* holds a session.
Loaded(route, saved) ==
    /\ transactions = <<>>
    /\ isLoading = FALSE
    /\ pending = <<>>
    /\ filterType = "all"
    /\ sortOrder = "desc"
    /\ totals = computeTotals(<<>>)
    /\ processedTransactions = computeProcessed(<<>>, "all", "desc")
    /\ last = NoCall
    /\ prior = <<>>
    /\ auth = [user |-> "null", isAuthenticated |-> FALSE, isLoading |-> TRUE]
    /\ savedUser = saved
    /\ hydrated = FALSE
    /\ loginPending = FALSE
    /\ page = route
    /\ effectDue = (route = "dashboard")
    /\ isModalOpen = FALSE
    /\ editingTransaction = undefined
    /\ isDeleteModalOpen = FALSE
    /\ transactionToDelete = null
    /\ awaiting = <<>>
    /\ event = NoEvent

\* The login page loaded without a saved session: the store is as constructed
\* and no page has called it.
Init == Loaded("login", FALSE)

\* The dashboard loaded with a saved session.
InitForm == Loaded("dashboard", TRUE)

\* Either page loaded, with or without a saved session.
InitApp == \E route \in {"login", "dashboard"}, saved \in BOOLEAN : Loaded(route, saved)

-----------------------------------------------------------------------------
(* Store calls up to their await *)

PendingAdds == Len(SelectSeq(pending, LAMBDA c : c.op = "addTransaction"))
FetchPending == \E i \in 1..Len(pending) : pending[i].op = "getAllTransactions"

\* The longest the collection can get once the pending calls have resolved.
Reach ==
    (IF FetchPending THEN Max(Len(transactions), Len(mockData)) ELSE Len(transactions))
    + PendingAdds

Publish(state) ==
    /\ transactions' = state.transactions
    /\ isLoading' = state.isLoading

Start(call) ==
    /\ Len(pending) < MaxPending
    /\ Publish(setLoading(StoreState))
    /\ pending' = Append(pending, call)
    /\ UNCHANGED <<filterType, sortOrder, last, prior>>
    /\ Render

getAllTransactions == Start(Call("getAllTransactions", NoArg, DelayFetch))

addTransaction(newTx) ==
    /\ Reach < MaxTransactions
    /\ Start(Call("addTransaction", newTx, DelayMutate))

updateTransaction(updatedTx) == Start(Call("updateTransaction", updatedTx, DelayMutate))

deleteTransaction(id) == Start(Call("deleteTransaction", [id |-> id], DelayMutate))

-----------------------------------------------------------------------------
(* Store calls from their await on *)

Resume(j, op, state) ==
    /\ j \in 1..Len(pending)
    /\ pending[j].op = op
    /\ CanFire(j)
    /\ Publish(state)
    /\ pending' = Remaining(j)
    /\ last' = Resolved(j)
    /\ prior' = IF Remaining(j) # <<>> THEN transactions ELSE <<>>
    /\ UNCHANGED <<filterType, sortOrder>>
    /\ Render

getAllTransactionsResume(j) ==
    Resume(j, "getAllTransactions", getAllSet(StoreState))

addTransactionResume(j, random) ==
    Resume(j, "addTransaction",
           addSet(StoreState, newTransaction(pending[j].arg, random)))

updateTransactionResume(j) ==
    Resume(j, "updateTransaction", updateSet(StoreState, pending[j].arg))

deleteTransactionResume(j) ==
    Resume(j, "deleteTransaction", deleteSet(StoreState, pending[j].arg.id))

-----------------------------------------------------------------------------
(* Dashboard controls *)

\* <select onChange={(e) => setFilterType(e.target.value)}>
setFilterType(value) ==
    /\ value # filterType
    /\ filterType' = value
    /\ UNCHANGED <<transactions, isLoading, pending, sortOrder, last, prior>>
    /\ Render

\* onClick={() => setSortOrder(sortOrder === "asc" ? "desc" : "asc")}
setSortOrder ==
    /\ sortOrder' = IF sortOrder = "asc" THEN "desc" ELSE "asc"
    /\ UNCHANGED <<transactions, isLoading, pending, filterType, last, prior>>
    /\ Render

-----------------------------------------------------------------------------
(* Specifications *)

\* The store under any callers.
Next ==
    \/ getAllTransactions /\ UNCHANGED appVars
    \/ \E newTx \in Drafts : addTransaction(newTx) /\ UNCHANGED appVars
    \/ \E updatedTx \in Updates : updateTransaction(updatedTx) /\ UNCHANGED appVars
    \/ \E id \in ArgIds : deleteTransaction(id) /\ UNCHANGED appVars
    \/ \E j \in 1..MaxPending : getAllTransactionsResume(j) /\ UNCHANGED appVars
    \/ \E j \in 1..MaxPending, random \in RandomStrings : addTransactionResume(j, random) /\ UNCHANGED appVars
    \/ \E j \in 1..MaxPending : updateTransactionResume(j) /\ UNCHANGED appVars
    \/ \E j \in 1..MaxPending : deleteTransactionResume(j) /\ UNCHANGED appVars

Spec == Init /\ [][Next]_vars

\* The dashboard over the store, its controls in use, one store call at a time.
NextDashboard ==
    \/ pending = <<>> /\ getAllTransactions /\ UNCHANGED appVars
    \/ pending = <<>> /\ \E newTx \in Drafts : addTransaction(newTx) /\ UNCHANGED appVars
    \/ pending = <<>> /\ \E updatedTx \in Updates : updateTransaction(updatedTx) /\ UNCHANGED appVars
    \/ pending = <<>> /\ \E id \in ArgIds : deleteTransaction(id) /\ UNCHANGED appVars
    \/ getAllTransactionsResume(1) /\ UNCHANGED appVars
    \/ \E random \in RandomStrings : addTransactionResume(1, random) /\ UNCHANGED appVars
    \/ updateTransactionResume(1) /\ UNCHANGED appVars
    \/ deleteTransactionResume(1) /\ UNCHANGED appVars
    \/ \E value \in FilterTypes : setFilterType(value) /\ UNCHANGED appVars
    \/ setSortOrder /\ UNCHANGED appVars

SpecDashboard == Init /\ [][NextDashboard]_vars

-----------------------------------------------------------------------------
(* Authentication context *)

\* AuthProvider's mount effect: restore the saved session or end the wait.
\* It runs after the effects of the page below it.
useEffectAuthProvider ==
    /\ ~hydrated
    /\ ~effectDue
    /\ auth' = IF savedUser
               THEN [user |-> "mockUser", isAuthenticated |-> TRUE, isLoading |-> FALSE]
               ELSE [auth EXCEPT !.isLoading = FALSE]
    /\ hydrated' = TRUE
    /\ effectDue' = (page = "dashboard")
    /\ event' = NoEvent
    /\ UNCHANGED <<storeVars, savedUser, loginPending, page, localVars, awaiting>>

DelayLogin == 1000

\* An event of the user is handled once the effects of the last commit have run.
EffectsRan == hydrated /\ ~effectDue

\* LoginPage's submit button (disabled={isLoading}) and login(email) up to its
\* await; one login at a time.
login ==
    /\ EffectsRan
    /\ page = "login"
    /\ ~auth.isLoading
    /\ ~loginPending
    /\ auth' = [auth EXCEPT !.isLoading = TRUE]
    /\ loginPending' = TRUE
    /\ event' = NoEvent
    /\ UNCHANGED <<storeVars, savedUser, hydrated, page, effectDue, localVars, awaiting>>

\* login(email) from its await on, then LoginPage's router.push("/dashboard"),
\* which mounts DashboardPage.  The store calls in flight were started from
\* the dashboard before login was: their shorter timers fire first.
loginResume ==
    /\ loginPending
    /\ \A i \in 1..Len(pending) : pending[i].delay >= DelayLogin
    /\ savedUser' = TRUE
    /\ auth' = [user |-> "mockUser", isAuthenticated |-> TRUE, isLoading |-> FALSE]
    /\ loginPending' = FALSE
    /\ page' = "dashboard"
    /\ effectDue' = TRUE
    /\ InitialLocalState
    /\ event' = NoEvent
    /\ UNCHANGED <<storeVars, hydrated, awaiting>>

\* logout(); DashboardPage's effect is scheduled when a dependency changed.
logout ==
    /\ EffectsRan
    /\ savedUser' = FALSE
    /\ auth' = [user |-> "null", isAuthenticated |-> FALSE, isLoading |-> FALSE]
    /\ effectDue' = (effectDue \/ (page = "dashboard" /\ (auth.isAuthenticated \/ auth.isLoading)))
    /\ event' = NoEvent
    /\ UNCHANGED <<storeVars, hydrated, loginPending, page, localVars, awaiting>>

-----------------------------------------------------------------------------
(* Dashboard page *)

\* What DashboardPage's render returns: the spinner, or the transaction view.
DashboardView ==
    IF page # "dashboard" THEN "none"
    ELSE IF auth.isLoading \/ (isLoading /\ Len(transactions) = 0) THEN "loading"
    ELSE "dashboard"

\* What a caller of the store does once the awaited call has resolved.
Then(callback) == [then |-> callback, mounted |-> TRUE]

\* State setters of a DashboardPage that was unmounted do nothing.
Unmounted(waits) == [i \in 1..Len(waits) |-> [waits[i] EXCEPT !.mounted = FALSE]]

\* useEffect(() => { if (!authLoading && !isAuthenticated) redirect("/login");
\*                   getAllTransactions(); }, [isAuthenticated, authLoading, ...])
\* It runs after the render that scheduled it has been committed.
useEffectDashboard ==
    /\ page = "dashboard"
    /\ effectDue
    /\ effectDue' = FALSE
    /\ event' = NoEvent
    /\ UNCHANGED authVars
    /\ IF ~auth.isLoading /\ ~auth.isAuthenticated
       THEN \* redirect throws, getAllTransactions is not reached
            /\ page' = "login"
            /\ InitialLocalState
            /\ awaiting' = Unmounted(awaiting)
            /\ UNCHANGED storeVars
       ELSE /\ getAllTransactions
            /\ awaiting' = Append(awaiting, Then("none"))
            /\ UNCHANGED <<page, localVars>>

\* The buttons of the page are taken to be out of reach while a modal is open.
PageInReach ==
    /\ EffectsRan
    /\ DashboardView = "dashboard"
    /\ ~isModalOpen
    /\ ~isDeleteModalOpen

Rows == { processedTransactions[i] : i \in 1..Len(processedTransactions) }

\* The row at the top of the table.
TopRow == { processedTransactions[i] : i \in 1..Min(1, Len(processedTransactions)) }

handleCreate ==
    /\ PageInReach
    /\ editingTransaction' = undefined
    /\ isModalOpen' = TRUE
    /\ event' = NoEvent
    /\ UNCHANGED <<storeVars, authVars, page, effectDue, isDeleteModalOpen,
                   transactionToDelete, awaiting>>

handleEdit(transaction) ==
    /\ PageInReach
    /\ editingTransaction' = transaction
    /\ isModalOpen' = TRUE
    /\ event' = NoEvent
    /\ UNCHANGED <<storeVars, authVars, page, effectDue, isDeleteModalOpen,
                   transactionToDelete, awaiting>>

handleDeleteClick(transaction) ==
    /\ PageInReach
    /\ transactionToDelete' = transaction
    /\ isDeleteModalOpen' = TRUE
    /\ event' = NoEvent
    /\ UNCHANGED <<storeVars, authVars, page, effectDue, isModalOpen,
                   editingTransaction, awaiting>>

\* onClose={() => setIsModalOpen(false)}: the modal's close control and the
\* form's Cancelar button.
closeModal ==
    /\ EffectsRan
    /\ DashboardView = "dashboard"
    /\ isModalOpen
    /\ isModalOpen' = FALSE
    /\ event' = NoEvent
    /\ UNCHANGED <<storeVars, authVars, page, effectDue, editingTransaction,
                   isDeleteModalOpen, transactionToDelete, awaiting>>

\* onClose={() => setIsDeleteModalOpen(false)} and the confirmation's Cancelar.
closeDeleteModal ==
    /\ EffectsRan
    /\ DashboardView = "dashboard"
    /\ isDeleteModalOpen
    /\ isDeleteModalOpen' = FALSE
    /\ event' = NoEvent
    /\ UNCHANGED <<storeVars, authVars, page, effectDue, isModalOpen,
                   editingTransaction, transactionToDelete, awaiting>>

\* The Eliminar button: if (transactionToDelete) { await deleteTransaction(id); ... }
confirmDelete ==
    /\ EffectsRan
    /\ DashboardView = "dashboard"
    /\ isDeleteModalOpen
    /\ transactionToDelete # null
    /\ deleteTransaction(transactionToDelete.id)
    /\ awaiting' = Append(awaiting, Then("setIsDeleteModalOpen"))
    /\ event' = NoEvent
    /\ UNCHANGED <<authVars, page, effectDue, localVars>>

-----------------------------------------------------------------------------
(* Transaction form *)

Blank ==
    [title |-> "", amount |-> 5, type |-> "expense",
     category |-> "Food", date |-> "2023-10-05"]

Free ==
    [title |-> "Coffee", amount |-> 0, type |-> "expense",
     category |-> "Food", date |-> "2023-10-05"]

\* What the user has typed when the form is submitted.
FormData == Drafts \cup {Blank, Free}

\* transactionSchema: title and category non-empty, amount positive, date
\* well formed, type one of the two kinds.
Valid(data) ==
    /\ data.title # ""
    /\ data.category # ""
    /\ data.amount > 0
    /\ data.date \in {"2023-10-01", "2023-10-05", "2024-01-01"}
    /\ data.type \in {"income", "expense"}

\* Faulty variant: the form creates a record in edit mode too.
onSubmitAlwaysCreates(data) ==
    /\ addTransaction(data)
    /\ awaiting' = Append(awaiting, Then("onClose"))
    /\ event' = [name |-> "onSubmit", data |-> data]
    /\ UNCHANGED <<authVars, page, effectDue, localVars>>

\* onSubmit up to its await: one store call, onClose() waits for it.
onSubmit(data) ==
    /\ IF editingTransaction # undefined
       THEN updateTransaction(WithId(data, editingTransaction.id))
       ELSE addTransaction(data)
    /\ awaiting' = Append(awaiting, Then("onClose"))
    /\ event' = [name |-> "onSubmit", data |-> data]
    /\ UNCHANGED <<authVars, page, effectDue, localVars>>

\* <form onSubmit={handleSubmit(onSubmit)}> with the submit button
\* disabled={isLoading}: onSubmit runs when the resolver finds no error.
handleSubmit(data) ==
    /\ EffectsRan
    /\ DashboardView = "dashboard"
    /\ isModalOpen
    /\ ~isLoading
    /\ IF Valid(data)
       THEN onSubmit(data)
       ELSE /\ event' = [name |-> "rejected", data |-> data]
            /\ UNCHANGED <<storeVars, authVars, page, effectDue, localVars, awaiting>>

-----------------------------------------------------------------------------
(* The application: store calls resolve and their callers go on *)

\* The statement after the await of the caller of pending call j.  A timer
\* does not fire between a commit and the effects of that commit.
Settle(j) ==
    /\ EffectsRan
    /\ awaiting' = RemoveAt(awaiting, j)
    /\ isModalOpen' =
           IF awaiting[j] = Then("onClose") THEN FALSE ELSE isModalOpen
    /\ isDeleteModalOpen' =
           IF awaiting[j] = Then("setIsDeleteModalOpen") THEN FALSE ELSE isDeleteModalOpen
    /\ event' = IF awaiting[j].then = "onClose"
                THEN [name |-> "onClose", data |-> NoArg] ELSE NoEvent
    /\ UNCHANGED <<authVars, page, effectDue, editingTransaction, transactionToDelete>>

\* The dashboard of a saved session with its form in use: any row is edited,
\* valid and invalid input is submitted.
NextForm ==
    \/ useEffectDashboard
    \/ useEffectAuthProvider
    \/ handleCreate
    \/ \E transaction \in Rows : handleEdit(transaction)
    \/ closeModal
    \/ \E data \in FormData : handleSubmit(data)
    \/ \E j \in 1..MaxPending : getAllTransactionsResume(j) /\ Settle(j)
    \/ \E j \in 1..MaxPending : addTransactionResume(j, <<"0", ".">> \o Id7) /\ Settle(j)
    \/ \E j \in 1..MaxPending : updateTransactionResume(j) /\ Settle(j)

SpecForm == InitForm /\ [][NextForm]_vars

\* The whole application: sessions begin and end, the form and the
\* confirmation work on the top row, the input submitted is valid.
NextApp ==
    \/ useEffectDashboard
    \/ useEffectAuthProvider
    \/ login
    \/ loginResume
    \/ logout
    \/ handleCreate
    \/ \E transaction \in TopRow : handleEdit(transaction)
    \/ \E transaction \in TopRow : handleDeleteClick(transaction)
    \/ closeModal
    \/ closeDeleteModal
    \/ confirmDelete
    \/ \E data \in Drafts : handleSubmit(data)
    \/ \E j \in 1..MaxPending : getAllTransactionsResume(j) /\ Settle(j)
    \/ \E j \in 1..MaxPending : addTransactionResume(j, <<"0", ".">> \o Id7) /\ Settle(j)
    \/ \E j \in 1..MaxPending : updateTransactionResume(j) /\ Settle(j)
    \/ \E j \in 1..MaxPending : deleteTransactionResume(j) /\ Settle(j)

SpecApp == InitApp /\ [][NextApp]_vars

-----------------------------------------------------------------------------
(* Properties of the store *)

Ids(txs) == { txs[i].id : i \in 1..Len(txs) }

HasId(txs, id) == \E i \in 1..Len(txs) : txs[i].id = id

NoDuplicateIds(txs) ==
    \A i, k \in 1..Len(txs) : i # k => txs[i].id # txs[k].id

\* The step in which a suspended call of the given kind resolves; last' then
\* tells which call it was.
Completes(op) == Len(pending') < Len(pending) /\ last'.op = op

\* after is before with one record for the draft put in front.
CreateEffect(before, after, draft) ==
    /\ Len(after) = Len(before) + 1
    /\ FieldsOf(after[1]) = draft
    /\ \A i \in 1..Len(before) : after[i + 1] = before[i]

\* after is before with r in the place of every record whose id is r.id.
UpdateEffect(before, after, r) ==
    /\ Len(after) = Len(before)
    /\ \A i \in 1..Len(before) :
           after[i] = IF before[i].id = r.id THEN r ELSE before[i]

\* The position in s of its k-th record whose id is not id.
KeptAt(s, id, k) ==
    CHOOSE i \in 1..Len(s) :
        /\ s[i].id # id
        /\ Cardinality({h \in 1..(i - 1) : s[h].id # id}) = k - 1

\* after is before without the records whose id is id, the others in their order.
DeleteEffect(before, after, id) ==
    /\ Len(after) = Cardinality({i \in 1..Len(before) : before[i].id # id})
    /\ \A k \in 1..Len(after) : after[k] = before[KeptAt(before, id, k)]

\* after is what the call leaves of before.
EffectOf(call, before, after) ==
    CASE call.op = "getAllTransactions" -> after = mockData
      [] call.op = "addTransaction"     -> CreateEffect(before, after, call.arg)
      [] call.op = "updateTransaction"  -> UpdateEffect(before, after, call.arg)
      [] call.op = "deleteTransaction"  -> DeleteEffect(before, after, call.arg.id)
      [] OTHER                          -> FALSE

C1_Step ==
    /\ NoDuplicateIds(transactions')
    /\ Completes("addTransaction") =>
           Ids(transactions') \ Ids(transactions) \subseteq {transactions'[1].id}
    /\ Completes("updateTransaction") \/ Completes("deleteTransaction") =>
           Ids(transactions') \subseteq Ids(transactions)

\* C1: whatever create, update and delete calls resolve in whatever order, no
\* two records of the collection share an id, and an id enters the collection
\* only as the id a create assigns to its new record.
C1_UniqueAssignedIds == [][C1_Step]_vars

C2_Step ==
    Completes("updateTransaction") =>
        LET r == last'.arg
        IN  /\ Len(transactions') = Len(transactions)
            /\ \A i \in 1..Len(transactions) :
                   /\ transactions[i].id = r.id => transactions'[i] = r
                   /\ transactions[i].id # r.id => transactions'[i] = transactions[i]
            /\ ~HasId(transactions, r.id) => transactions' = transactions

\* C2: when update(r) resolves, every record that had id r.id is now r, there
\* is one if there was one, every other record is unchanged in its place, and
\* with no record of that id the collection is what it was.
C2_UpdateReplacesInPlace == [][C2_Step]_vars

\* An update has resolved on a collection holding its id and another record.
C2_Witness ==
    /\ last.op = "updateTransaction"
    /\ \E i \in 1..Len(transactions) : transactions[i] = last.arg
    /\ \E i \in 1..Len(transactions) : transactions[i].id # last.arg.id

C3_Step ==
    Completes("deleteTransaction") =>
        LET id == last'.arg.id
        IN  /\ ~HasId(transactions', id)
            /\ Len(transactions') =
                   IF HasId(transactions, id) THEN Len(transactions) - 1
                                              ELSE Len(transactions)
            /\ DeleteEffect(transactions, transactions', id)

\* C3: when delete(id) resolves, no record has that id, the collection is one
\* record shorter if the id was there and as long as before if not, and the
\* records left keep their fields and their order.
C3_DeleteRemovesOne == [][C3_Step]_vars

C4_Step ==
    Completes("addTransaction") =>
        /\ Len(transactions') = Len(transactions) + 1
        /\ \E k \in 1..Len(transactions') :
               /\ FieldsOf(transactions'[k]) = last'.arg
               /\ transactions'[k].id # <<>>
               /\ ~HasId(transactions, transactions'[k].id)
               /\ RemoveAt(transactions', k) = transactions

\* C4: when create(draft) resolves, the collection is one record longer, the
\* new record has the draft's fields and a non-empty id that no record had
\* before, and the records of before are unchanged in their order.
C4_CreateAddsFreshId == [][C4_Step]_vars

\* C5: as long as getAllTransactions is the call that resolved last, however
\* often it did and whatever the collection was, the collection is the
\* snapshot of the data source.
C5_LoadAllReplaces ==
    last.op = "getAllTransactions" =>
        /\ transactions = mockData
        /\ Len(transactions) = 2
        /\ Ids(transactions) = { <<"1">>, <<"2">> }

\* A getAllTransactions has resolved on a collection longer than the snapshot.
C5_Witness ==
    /\ last.op = "getAllTransactions"
    /\ last.size > Len(mockData)
    /\ transactions = mockData

C9_Step ==
    transactions' # transactions =>
        /\ Len(pending') = Len(pending) - 1
        /\ EffectOf(last', transactions, transactions')
        /\ isLoading' = FALSE

\* C9: a step that changes the collection is the resolution of exactly one
\* call, leaves the whole effect of that call, and clears isLoading.
C9_AtomicPublish == [][C9_Step]_vars

\* A call has just resolved and changed the collection while another call is
\* still in flight.
C9_Witness ==
    /\ last.op # "none"
    /\ last.size # Len(transactions)
    /\ pending # <<>>
    /\ \A i \in 1..Len(pending) : pending[i].raced
    /\ isLoading = FALSE

C10_LastWriteWinsStep ==
    (Len(pending') < Len(pending) /\ last'.raced) =>
        EffectOf(last', prior, transactions')

\* C10 as claimed: of two calls in flight together the later to resolve wins,
\* the collection being what its write makes of the collection as it was
\* before the earlier one resolved.
C10_LastWriteWins == [][C10_LastWriteWinsStep]_vars

C10_AmendedStep ==
    (Len(pending') < Len(pending) /\ last'.raced) =>
        IF last'.op = "getAllTransactions"
        THEN transactions' = mockData
        ELSE /\ last'.op \in {"addTransaction", "updateTransaction", "deleteTransaction"}
             /\ EffectOf(last', transactions, transactions')

\* C10 as amended: of two calls in flight together the later to resolve
\* replaces the collection only if it is getAllTransactions; a create, update
\* or delete applies to the collection as the earlier call left it.
C10_LaterCallAppliesToCurrent == [][C10_AmendedStep]_vars

\* Two creates were in flight together and both records are in the collection.
C10_Witness ==
    /\ last.op = "addTransaction"
    /\ last.raced
    /\ last.size >= 1
    /\ Len(transactions) = last.size + 1
    /\ FieldsOf(transactions[1]) = last.arg
    /\ FieldsOf(transactions[2]) \in Drafts

-----------------------------------------------------------------------------
(* Properties of the dashboard *)

RECURSIVE SumOfType(_, _)
SumOfType(txs, type) ==
    IF txs = <<>> THEN 0
    ELSE (IF Head(txs).type = type THEN Head(txs).amount ELSE 0)
         + SumOfType(Tail(txs), type)

Count(txs, r) == Cardinality({i \in 1..Len(txs) : txs[i] = r})

\* The positions of the collection that the type filter lets through.
Shown == {i \in 1..Len(transactions) :
              filterType = "all" \/ transactions[i].type = filterType}

\* a comes strictly before b under the sort order.
Precedes(a, b) ==
    IF sortOrder = "desc" THEN getTime(a.date) > getTime(b.date)
                          ELSE getTime(a.date) < getTime(b.date)

\* Where the record at position i of the collection belongs in the list:
\* behind the shown records that precede it, and behind those of its own
\* date that stand before it in the collection.
Place(i) ==
    1 + Cardinality({h \in Shown :
                        \/ Precedes(transactions[h], transactions[i])
                        \/ /\ transactions[h].date = transactions[i].date
                           /\ h < i})

C6_TotalsState ==
    /\ totals.totalIncome = SumOfType(transactions, "income")
    /\ totals.totalExpenses = SumOfType(transactions, "expense")
    /\ totals.netBalance = totals.totalIncome - totals.totalExpenses
    /\ (\A i \in 1..Len(transactions) : transactions[i].amount >= 0) =>
           totals.totalIncome >= 0 /\ totals.totalExpenses >= 0

\* C6: under every filter and sort order the totals are the sums of amount
\* over the income and over the expense records of the whole collection, the
\* balance is their difference, neither total is negative when no amount is,
\* and a step that leaves the collection alone leaves the totals alone.
C6_TotalsOverWholeCollection ==
    /\ C6_TotalsState
    /\ [][C6_TotalsState' /\ (transactions' = transactions => totals' = totals)]_vars

\* The list shows expenses only while the collection holds income as well.
C6_Witness ==
    /\ filterType = "expense"
    /\ totals.totalIncome > 0
    /\ totals.totalExpenses > 0
    /\ totals.netBalance # totals.totalIncome

\* C7: the list holds only income records under the income filter, only
\* expense records under the expense filter, every record under all, and for
\* the collection as it stands the income list and the expense list together
\* are as long as the all list.
C7_FilterByType ==
    /\ filterType # "all" =>
           \A k \in 1..Len(processedTransactions) :
               processedTransactions[k].type = filterType
    /\ filterType = "all" =>
           /\ Len(processedTransactions) = Len(transactions)
           /\ \A i \in 1..Len(transactions) :
                  Count(processedTransactions, transactions[i])
                      = Count(transactions, transactions[i])
    /\ Len(computeProcessed(transactions, "income", sortOrder))
           + Len(computeProcessed(transactions, "expense", sortOrder))
       = Len(computeProcessed(transactions, "all", sortOrder))

\* The income filter is on and hides a record of the collection.
C7_Witness ==
    /\ filterType = "income"
    /\ processedTransactions # <<>>
    /\ Len(processedTransactions) < Len(transactions)

C8_ListState ==
    /\ Len(processedTransactions) = Cardinality(Shown)
    /\ \A i \in Shown : processedTransactions[Place(i)] = transactions[i]
    /\ \A k \in 1..(Len(processedTransactions) - 1) :
           LET a == processedTransactions[k]
               b == processedTransactions[k + 1]
           IN  IF sortOrder = "desc" THEN getTime(a.date) >= getTime(b.date)
                                     ELSE getTime(a.date) <= getTime(b.date)

\* C8: the list is the shown records, each once, in date order (falling under
\* desc, rising under asc), records of one date in the order they have in the
\* collection; and turning a dashboard control leaves the collection as it is.
C8_SortedStablePermutation ==
    /\ C8_ListState
    /\ [][/\ C8_ListState'
          /\ (filterType' # filterType \/ sortOrder' # sortOrder) =>
                 transactions' = transactions]_vars

\* The rising list holds two different records of one date and a record of
\* another date.
C8_Witness ==
    /\ sortOrder = "asc"
    /\ \E k, l \in 1..Len(processedTransactions) :
           /\ k < l
           /\ processedTransactions[k].date = processedTransactions[l].date
           /\ processedTransactions[k] # processedTransactions[l]
    /\ \E k, l \in 1..Len(processedTransactions) :
           processedTransactions[k].date # processedTransactions[l].date

-----------------------------------------------------------------------------
(* Properties of the store under overlapping calls *)

C11_Step ==
    /\ Len(pending') > Len(pending) => isLoading' = TRUE
    /\ Len(pending') < Len(pending) => isLoading' = FALSE

\* C11: isLoading is one boolean and no count: every call sets it when it
\* starts and every call clears it when it resolves, whatever other calls are
\* still in flight.
C11_BusyIsOneBoolean == [][C11_Step]_vars

\* A call has resolved, another is still in flight, and isLoading is false.
C11_Witness ==
    /\ isLoading = FALSE
    /\ pending # <<>>
    /\ last.op # "none"

\* C15: isLoading is set only while a store call is in flight; with no call
\* in flight, the initial state included, it is false.
C15_BusyImpliesPending == isLoading => pending # <<>>

\* The calls that were started have all resolved and isLoading is false again.
C15_Witness ==
    /\ last.op # "none"
    /\ pending = <<>>
    /\ isLoading = FALSE

C16_Mutations == {"addTransaction", "updateTransaction", "deleteTransaction"}

\* The step in which the later of two calls that were in flight together resolves.
C16_LaterResolves == Len(pending') < Len(pending) /\ last'.raced

C16_Step ==
    C16_LaterResolves =>
        /\ last'.op = "getAllTransactions" => transactions' = mockData
        /\ (last'.op \in C16_Mutations /\ last.op \in C16_Mutations) =>
               \* the collection is what the two calls make of it one after the other
               /\ EffectOf(last, prior, transactions)
               /\ EffectOf(last', transactions, transactions')
        /\ (last'.op = "addTransaction" /\ last.op = "addTransaction") =>
               \* both new records are there
               /\ Len(transactions') = Len(prior) + 2
               /\ FieldsOf(transactions'[1]) = last'.arg
               /\ transactions'[2] = transactions[1]
               /\ FieldsOf(transactions'[2]) = last.arg
        /\ (last'.op = "deleteTransaction" /\ last.op = "addTransaction"
              /\ last'.arg.id # transactions[1].id) =>
               \* the new record stays and the other id goes
               /\ transactions'[1] = transactions[1]
               /\ ~HasId(transactions', last'.arg.id)
        /\ (last'.op = "updateTransaction" /\ last.op = "addTransaction"
              /\ last'.arg.id # transactions[1].id) =>
               \* the new record stays and the other id is replaced
               /\ transactions'[1] = transactions[1]
               /\ \A i \in 1..Len(transactions) :
                      transactions[i].id = last'.arg.id => transactions'[i] = last'.arg
        /\ (last'.op = "addTransaction" /\ last.op = "deleteTransaction"
              /\ transactions'[1].id # last.arg.id) =>
               \* the other id stays gone and the new record is there
               /\ FieldsOf(transactions'[1]) = last'.arg
               /\ ~HasId(transactions', last.arg.id)

\* C16: create, update and delete calls in flight together do not lose each
\* other's effect, each applying to the collection as it is when it resolves:
\* two creates leave both records, a create and a delete or update of another
\* id leave the new record and the other id removed or replaced; only a
\* getAllTransactions that resolves later discards what resolved before it.
C16_OverlappingMutationsCompose == [][C16_Step]_vars

\* A delete that was in flight with an earlier resolving call has removed its
\* record and left a created record at the head of the collection.
C16_Witness ==
    /\ last.op = "deleteTransaction"
    /\ last.raced
    /\ last.size = Len(transactions) + 1
    /\ transactions # <<>>
    /\ FieldsOf(transactions[1]) \in Drafts
    /\ ~HasId(transactions, last.arg.id)

-----------------------------------------------------------------------------
(* Properties of the form and of the dashboard's gate *)

\* The store call a submission has just started.
C12_Issued == pending'[Len(pending')]

C12_Step ==
    /\ event'.name = "onSubmit" =>
           \* exactly one call, chosen by the mode, and no close yet
           /\ Valid(event'.data)
           /\ pending' = Append(pending, C12_Issued)
           /\ IF editingTransaction # undefined
              THEN /\ C12_Issued.op = "updateTransaction"
                   /\ C12_Issued.arg = WithId(event'.data, editingTransaction.id)
              ELSE /\ C12_Issued.op = "addTransaction"
                   /\ C12_Issued.arg = event'.data
                   /\ "id" \notin DOMAIN C12_Issued.arg
           /\ awaiting' = Append(awaiting, Then("onClose"))
           /\ isModalOpen' = isModalOpen
    /\ event'.name = "rejected" =>
           \* no call and no close
           /\ ~Valid(event'.data)
           /\ pending' = pending
           /\ transactions' = transactions
           /\ awaiting' = awaiting
           /\ isModalOpen' = isModalOpen
    /\ event'.name = "onClose" =>
           \* the close callback runs in the step in which the awaited call resolves
           /\ \E j \in 1..Len(pending) :
                  /\ awaiting[j].then = "onClose"
                  /\ pending[j].op \in {"addTransaction", "updateTransaction"}
                  /\ pending' = Remaining(j)
                  /\ last' = Resolved(j)
           /\ isModalOpen' = FALSE
    /\ (Len(pending') < Len(pending) /\ event'.name # "onClose") =>
           \* a call that no submission waits for closes no form
           isModalOpen' = isModalOpen

\* C12: a submission of the form starts at most one store call: valid input
\* starts exactly one (updateTransaction with the id of the record being
\* edited, addTransaction with the data alone otherwise) and the close
\* callback runs only once that call has resolved; invalid input starts no
\* call and closes nothing.
C12_OneCallThenClose == [][C12_Step]_vars

\* An update started from the form has resolved and the form was closed.
C12_Witness ==
    /\ event.name = "onClose"
    /\ last.op = "updateTransaction"
    /\ isModalOpen = FALSE

\* C13: the dashboard shows the spinner while the session is being decided,
\* has its redirect scheduled whenever the decision is that nobody is signed
\* in, and shows the transaction view to a signed-in user only.
C13_GatedView ==
    page = "dashboard" =>
        /\ auth.isLoading => DashboardView = "loading"
        /\ (~auth.isLoading /\ ~auth.isAuthenticated) => effectDue
        /\ DashboardView = "dashboard" => auth.isAuthenticated

\* The calls in flight that a submission of the form on screen started.
C14_FormCalls == { j \in 1..Len(awaiting) : awaiting[j] = Then("onClose") }

\* C14: while a create or update started from the form is in flight, no
\* second one is started from the form, whatever other calls start or resolve.
C14_NoDuplicateSubmission == Cardinality(C14_FormCalls) <= 1

====
